---- MODULE Spec2Model ----
(***************************************************************************)
(* A model of src/src/main.rs: the RESP-like codec (DataType, its Display  *)
(* and TryFrom<&str>), command construction and replies (Command,          *)
(* MapEntry) and the connection loop handle_incoming running on several    *)
(* threads against one RwLock<HashMap<String, MapValue>>.                  *)
(*                                                                         *)
(* A Rust &str is a sequence of characters, each a one-character string.   *)
(* WideChar stands for a character whose UTF-8 form takes two bytes, so    *)
(* that byte lengths and character counts differ.                          *)
(***************************************************************************)
EXTENDS Integers, Sequences, FiniteSets, TLC

\* ------------------------------------------------------------------ bounds

\* The clock stops advancing at MaxTime milliseconds.
MaxTime == 1
\* The connections perform at most MaxReads transport reads between them.
MaxReads == 3
\* Arrays that are encoded and decoded back hold at most MaxElems elements.
MaxElems == 2
\* Array frames put together piece by piece declare at most MaxCount elements
\* and end in at most MaxJunk stray characters.
MaxCount == 2
MaxJunk == 2
\* Array frames put together from wire forms hold at most MaxForms elements,
\* and buffers put together character by character at most MaxRaw characters.
MaxForms == 2
MaxRaw == 4

\* ----------------------------------------------------------------- strings

CR == "\r"
LF == "\n"
CRLF == <<CR, LF>>
WideChar == "W"

Digits == <<"0", "1", "2", "3", "4", "5", "6", "7", "8", "9">>

IsDigit(ch) == \E i \in 1..10 : Digits[i] = ch

DigitVal(ch) == (CHOOSE i \in 1..10 : Digits[i] = ch) - 1

\* str::as_bytes().len() of one character
Width(ch) == IF ch = WideChar THEN 2 ELSE 1

RECURSIVE ByteLen(_)
\* str::as_bytes().len()
ByteLen(s) == IF s = <<>> THEN 0 ELSE Width(Head(s)) + ByteLen(Tail(s))

RECURSIVE ToDec(_)
\* Display of a usize: its decimal digits
ToDec(n) ==
    IF n < 10 THEN <<Digits[n + 1]>>
    ELSE ToDec(n \div 10) \o <<Digits[(n % 10) + 1]>>

\* A number read off the wire is kept as its decimal digits without leading
\* zeros, so that every value of a 64-bit integer has its own form.
Zero == <<"0">>
\* usize::MAX and u64::MAX (2^64 - 1), isize::MAX (2^63 - 1), and the
\* magnitude of isize::MIN (2^63), on a 64-bit target
UnsignedMax ==
    <<"1", "8", "4", "4", "6", "7", "4", "4", "0", "7",
      "3", "7", "0", "9", "5", "5", "1", "6", "1", "5">>
SignedMax ==
    <<"9", "2", "2", "3", "3", "7", "2", "0", "3", "6",
      "8", "5", "4", "7", "7", "5", "8", "0", "7">>
SignedMinMagnitude ==
    <<"9", "2", "2", "3", "3", "7", "2", "0", "3", "6",
      "8", "5", "4", "7", "7", "5", "8", "0", "8">>

RECURSIVE StripZeros(_)
\* the digits d without their leading zeros
StripZeros(d) ==
    IF Len(d) > 1 /\ Head(d) = "0" THEN StripZeros(Tail(d)) ELSE d

\* m <= n, for numbers given by their digits without leading zeros
DecLeq(m, n) ==
    \/ Len(m) < Len(n)
    \/ /\ Len(m) = Len(n)
       /\ \/ m = n
          \/ \E i \in 1..Len(m) :
                /\ DigitVal(m[i]) < DigitVal(n[i])
                /\ \A h \in 1..(i - 1) : m[h] = n[h]

RECURSIVE DecPred(_)
\* n - 1, for a number n > 0 given by its digits without leading zeros
DecPred(n) ==
    LET last == n[Len(n)]
        front == SubSeq(n, 1, Len(n) - 1)
    IN  StripZeros(IF last # "0" THEN Append(front, Digits[DigitVal(last)])
                   ELSE Append(DecPred(front), "9"))

\* str::parse::<usize>() and ::<u64>(): an optional "+", then one or more
\* decimal digits; anything else (a "-" included) is an error, and so is a
\* number above 2^64 - 1 (PosOverflow).
ParseUnsigned(s) ==
    LET d == IF s # <<>> /\ Head(s) = "+" THEN Tail(s) ELSE s
    IN  IF d # <<>> /\ (\A i \in 1..Len(d) : IsDigit(d[i]))
           /\ DecLeq(StripZeros(d), UnsignedMax)
        THEN [ok |-> TRUE, n |-> StripZeros(d)]
        ELSE [ok |-> FALSE, n |-> Zero]

\* str::parse::<isize>(): an optional "+" or "-", then one or more digits;
\* a number above 2^63 - 1 (PosOverflow) or below -2^63 (NegOverflow) is an
\* error. The number is neg and the magnitude n.
ParseSigned(s) ==
    LET neg == s # <<>> /\ Head(s) = "-"
        d == IF s # <<>> /\ Head(s) \in {"+", "-"} THEN Tail(s) ELSE s
    IN  IF d # <<>> /\ (\A i \in 1..Len(d) : IsDigit(d[i]))
           /\ DecLeq(StripZeros(d), IF neg THEN SignedMinMagnitude ELSE SignedMax)
        THEN [ok |-> TRUE, neg |-> neg /\ StripZeros(d) # Zero, n |-> StripZeros(d)]
        ELSE [ok |-> FALSE, neg |-> FALSE, n |-> Zero]

\* The index of the first occurrence of pat in s, 0 when there is none.
FindSub(s, pat) ==
    LET hits == {i \in 1..(Len(s) - Len(pat) + 1) :
                    SubSeq(s, i, i + Len(pat) - 1) = pat}
    IN  IF hits = {} THEN 0 ELSE CHOOSE i \in hits : \A j \in hits : i <= j

\* str::split_once(pat)
split_once(s, pat) ==
    LET i == FindSub(s, pat)
    IN  IF i = 0 THEN [found |-> FALSE, hd |-> <<>>, tl |-> <<>>]
        ELSE [found |-> TRUE, hd |-> SubSeq(s, 1, i - 1),
              tl |-> SubSeq(s, i + Len(pat), Len(s))]

\* str::get(0..len): the prefix of len bytes, None when s is shorter or the
\* byte offset len falls inside a character; len is given by its digits.
str_get(s, len) ==
    LET cuts == {j \in 0..Len(s) : ToDec(ByteLen(SubSeq(s, 1, j))) = len}
    IN  IF cuts = {} THEN [some |-> FALSE, s |-> <<>>]
        ELSE [some |-> TRUE, s |-> SubSeq(s, 1, CHOOSE j \in cuts : TRUE)]

\* --------------------------------------------------------------- DataType

SimpleString(s) == [t |-> "SimpleString", s |-> s, elts |-> <<>>]
BulkString(s) == [t |-> "BulkString", s |-> s, elts |-> <<>>]
NullBulk == [t |-> "NullBulk", s |-> <<>>, elts |-> <<>>]
Array(elts) == [t |-> "Array", s |-> <<>>, elts |-> elts]

RECURSIVE DataType_fmt(_)
RECURSIVE FmtFold(_, _)
\* the fold of lines 36-39: the accumulator followed by each element's form
FmtFold(acc, elts) ==
    IF elts = <<>> THEN acc
    ELSE FmtFold(acc \o DataType_fmt(Head(elts)), Tail(elts))

\* DataType_fmt with the length of a bulk string counted in characters
DataType_fmt_chars(v) ==
    CASE v.t = "SimpleString" -> <<"+">> \o v.s \o CRLF
      [] v.t = "BulkString" -> <<"$">> \o ToDec(Len(v.s)) \o CRLF \o v.s \o CRLF
      [] v.t = "NullBulk" -> <<"$", "-", "1">> \o CRLF
      [] v.t = "Array" -> FmtFold(<<"*">> \o ToDec(Len(v.elts)) \o CRLF, v.elts)

\* impl fmt::Display for DataType
DataType_fmt(v) ==
    CASE v.t = "SimpleString" -> <<"+">> \o v.s \o CRLF
      [] v.t = "BulkString" -> <<"$">> \o ToDec(ByteLen(v.s)) \o CRLF \o v.s \o CRLF
      [] v.t = "NullBulk" -> <<"$", "-", "1">> \o CRLF
      [] v.t = "Array" -> FmtFold(<<"*">> \o ToDec(Len(v.elts)) \o CRLF, v.elts)

\* Result<DataType, io::Error>, with "panic" for a thread that unwinds
Ok(v) == [st |-> "ok", v |-> v, err |-> ""]
Err(msg) == [st |-> "err", v |-> NullBulk, err |-> msg]
Panic == [st |-> "panic", v |-> NullBulk, err |-> "panic"]

\* BulkBranch without the isize parse (the commented-out lines 97-103)
BulkBranch_nonull(len, tl) ==
    LET u == ParseUnsigned(len)
        g == str_get(tl, u.n)
    IN  IF ~u.ok THEN Err("Failed to parse bulk-string length")
        ELSE IF g.some THEN Ok(BulkString(g.s))
        ELSE Err("Invalid length")

\* lines 82-96: the usize parse and bounds check, or else the isize parse
\* that accepts -1 only
BulkBranch(len, tl) ==
    LET u == ParseUnsigned(len)
        g == str_get(tl, u.n)
        i == ParseSigned(len)
    IN  IF u.ok /\ g.some THEN Ok(BulkString(g.s))
        ELSE IF ~i.ok THEN Err("Failed to parse bulk-string length")
        ELSE IF i.neg /\ i.n = <<"1">> THEN Ok(NullBulk)
        ELSE Err("Invalid length")

RECURSIVE DataType_try_from(_)
RECURSIVE chainparse(_)
RECURSIVE ArrayLoop(_, _, _)

\* ArrayLoop that refuses bytes left after the last element
ArrayLoop_strict(count, tl, buf) ==
    IF count = Zero
    THEN IF tl = <<>> THEN Ok(Array(buf)) ELSE Err("Trailing bytes")
    ELSE LET r == chainparse(tl)
         IN  IF r.res.st # "ok" THEN r.res
             ELSE ArrayLoop(DecPred(count), r.rem, buf \o <<r.res.v>>)

\* lines 61-66: count times, parse one element and continue on its remainder
ArrayLoop(count, tl, buf) ==
    IF count = Zero THEN Ok(Array(buf))
    ELSE LET r == chainparse(tl)
         IN  IF r.res.st # "ok" THEN r.res
             ELSE ArrayLoop(DecPred(count), r.rem, buf \o <<r.res.v>>)

\* impl TryFrom<&str> for DataType
DataType_try_from(value) ==
    LET sp == split_once(value, CRLF)
    IN  IF ~sp.found THEN Err("Missing delimiter")
        ELSE IF sp.hd = <<>> \/ Width(Head(sp.hd)) > 1 THEN Panic
        ELSE IF Head(sp.hd) = "*" THEN
            LET count == ParseUnsigned(Tail(sp.hd))
            IN  IF ~count.ok THEN Err("Failed to parse array-count")
                ELSE ArrayLoop(count.n, sp.tl, <<>>)
        ELSE IF Head(sp.hd) = "$" THEN BulkBranch(Tail(sp.hd), sp.tl)
        ELSE Err("Unknown")

\* DataType::chainparse: the remainder is what follows the first occurrence
\* of the segment's own encoding in s, and is empty (None, then
\* unwrap_or_default) when the encoding does not occur in s.
chainparse(s) ==
    LET segment == DataType_try_from(s)
    IN  IF segment.st # "ok" THEN [res |-> segment, some |-> FALSE, rem |-> <<>>]
        ELSE LET sp == split_once(s, DataType_fmt(segment.v))
             IN  [res |-> segment, some |-> sp.found, rem |-> sp.tl]

RECURSIVE ArrayInputs(_, _)
\* lines 61-64: the inputs the loop hands to chainparse, one per element it
\* comes to decode, the first being tl
ArrayInputs(count, tl) ==
    IF count = Zero THEN <<>>
    ELSE LET r == chainparse(tl)
         IN  IF r.res.st # "ok" THEN <<tl>>
             ELSE <<tl>> \o ArrayInputs(DecPred(count), r.rem)

\* DataType::try_take
try_take(v) ==
    IF v.t \in {"SimpleString", "BulkString"} THEN [some |-> TRUE, s |-> v.s]
    ELSE [some |-> FALSE, s |-> <<>>]

\* ---------------------------------------------------------------- Command

Ping(some, s) == [kind |-> "Ping", some |-> some, s |-> s]
Echo(s) == [kind |-> "Echo", some |-> TRUE, s |-> s]
Set == [kind |-> "Set", some |-> FALSE, s |-> <<>>]
Get(some, s) == [kind |-> "Get", some |-> some, s |-> s]

kPING == <<"P", "I", "N", "G">>
kping == <<"p", "i", "n", "g">>
kECHO == <<"E", "C", "H", "O">>
kecho == <<"e", "c", "h", "o">>
kSET == <<"S", "E", "T">>
kset == <<"s", "e", "t">>
kGET == <<"G", "E", "T">>
kget == <<"g", "e", "t">>
kpx == <<"p", "x">>

\* Command::match_command
match_command(command) ==
    IF command \in {kPING, kping} THEN [st |-> "ok", cmd |-> Ping(FALSE, <<>>)]
    ELSE [st |-> "err", cmd |-> Set]

\* impl FromStr for Command; match_command_with_payload is todo!()
Command_from_str(s) ==
    IF s = <<>> THEN [st |-> "err", cmd |-> Set]
    ELSE IF split_once(s, <<" ">>).found THEN [st |-> "panic", cmd |-> Set]
    ELSE match_command(s)

\* impl fmt::Display for Command; Ping(Some(_)) is todo!()
Command_fmt(cmd) ==
    CASE cmd.kind = "Ping" /\ cmd.some -> [panic |-> TRUE, s |-> <<>>]
      [] cmd.kind = "Ping" /\ ~cmd.some ->
            [panic |-> FALSE, s |-> DataType_fmt(SimpleString(<<"P", "O", "N", "G">>))]
      [] cmd.kind = "Echo" -> [panic |-> FALSE, s |-> DataType_fmt(BulkString(cmd.s))]
      [] cmd.kind = "Set" -> [panic |-> FALSE, s |-> DataType_fmt(SimpleString(<<"O", "K">>))]
      [] cmd.kind = "Get" /\ cmd.some -> [panic |-> FALSE, s |-> DataType_fmt(BulkString(cmd.s))]
      [] cmd.kind = "Get" /\ ~cmd.some -> [panic |-> FALSE, s |-> DataType_fmt(NullBulk)]

\* ------------------------------------------------------- MapValue, MapEntry

NoTimer == [some |-> FALSE, start |-> 0, timeout |-> Zero]
\* MapValueTimer::new, with Instant::now() read off the clock; the timeout
\* is the number of milliseconds, given by its digits
MapValueTimer_new(timeout, clock) == [some |-> TRUE, start |-> clock, timeout |-> timeout]

\* MapValueTimer_is_expired with > for >=
MapValueTimer_is_expired_gt(timer, clock) ==
    ~DecLeq(ToDec(clock - timer.start), timer.timeout)

\* MapValueTimer::is_expired
MapValueTimer_is_expired(timer, clock) ==
    DecLeq(timer.timeout, ToDec(clock - timer.start))

\* MapValue::is_expired
MapValue_is_expired(value, clock) ==
    IF value.timer.some THEN MapValueTimer_is_expired(value.timer, clock) ELSE FALSE

\* Iterator::next().and_then(DataType::try_take) on the remaining elements
NextTake(it) ==
    IF it = <<>> THEN [some |-> FALSE, s |-> <<>>] ELSE try_take(Head(it))

\* what Iterator::next() leaves
Rest(it) == IF it = <<>> THEN <<>> ELSE Tail(it)

\* TimerOption that starts a timer of 0 ms when px lacks usable milliseconds
TimerOption_zero(it, clock) ==
    LET opt == NextTake(it)
        ms == NextTake(Rest(it))
        n == ParseUnsigned(ms.s)
    IN  IF opt.some /\ opt.s = kpx
        THEN [timer |-> IF ms.some /\ n.ok THEN MapValueTimer_new(n.n, clock)
                        ELSE MapValueTimer_new(Zero, clock),
              rest |-> Rest(Rest(it))]
        ELSE [timer |-> NoTimer, rest |-> Rest(it)]

\* lines 330-344: the element after the value is taken off the iterator
\* whatever it is; only the text px makes the following element the timeout
TimerOption(it, clock) ==
    LET opt == NextTake(it)
        ms == NextTake(Rest(it))
        n == ParseUnsigned(ms.s)
    IN  IF opt.some /\ opt.s = kpx
        THEN [timer |-> IF ms.some /\ n.ok THEN MapValueTimer_new(n.n, clock) ELSE NoTimer,
              rest |-> Rest(Rest(it))]
        ELSE [timer |-> NoTimer, rest |-> Rest(it)]

\* impl TryFrom<&mut IntoIter<DataType>> for MapEntry
MapEntry_try_from(it, clock) ==
    LET key == NextTake(it)
        val == NextTake(Rest(it))
        opt == TimerOption(Rest(Rest(it)), clock)
    IN  IF key.some /\ val.some
        THEN [ok |-> TRUE, key |-> key.s, value |-> [data |-> val.s, timer |-> opt.timer],
              rest |-> opt.rest]
        ELSE [ok |-> FALSE, key |-> <<>>, value |-> [data |-> <<>>, timer |-> NoTimer],
              rest |-> <<>>]

\* MapInsert that keeps the entry a key already has
MapInsert_keep(map, key, value) ==
    IF \E e \in map : e.key = key THEN map
    ELSE map \cup {[key |-> key, value |-> value]}

\* MapInsert that leaves the timer of an entry it overwrites in place
MapInsert_oldtimer(map, key, value) ==
    IF \E e \in map : e.key = key
    THEN {e \in map : e.key # key}
         \cup {[key |-> key,
                value |-> [data |-> value.data,
                           timer |-> (CHOOSE e \in map : e.key = key).value.timer]]}
    ELSE map \cup {[key |-> key, value |-> value]}

\* HashMap::insert
MapInsert(map, key, value) ==
    {e \in map : e.key # key} \cup {[key |-> key, value |-> value]}

\* MapLookup that returns an entry whatever its key
MapLookup_anykey(map, key, clock) ==
    IF \E e \in map : ~MapValue_is_expired(e.value, clock)
    THEN [some |-> TRUE,
          s |-> (CHOOSE e \in map : ~MapValue_is_expired(e.value, clock)).value.data]
    ELSE [some |-> FALSE, s |-> <<>>]

\* lines 420-431: HashMap::get, then None for an expired value, its data
\* otherwise
MapLookup(map, key, clock) ==
    IF \E e \in map : e.key = key /\ ~MapValue_is_expired(e.value, clock)
    THEN [some |-> TRUE, s |-> (CHOOSE e \in map : e.key = key).value.data]
    ELSE [some |-> FALSE, s |-> <<>>]

\* ------------------------------------------------ the transport's buffers

k == <<"k">>
j == <<"j">>
a == <<"a">>
b == <<"b">>
x == <<"x">>

\* A client's request: an array of bulk strings, on the wire
Req(toks) == DataType_fmt(Array([i \in 1..Len(toks) |-> BulkString(toks[i])]))

\* The buffers a transport read can return, by name
Menu ==
    [ set_a       |-> Req(<<kSET, k, a>>),
      set_px0     |-> Req(<<kset, k, a, kpx, <<"0">> >>),
      set_px1     |-> Req(<<kSET, k, b, kpx, <<"1">> >>),
      get         |-> Req(<<kGET, k>>),
      echo_get_j  |-> Req(<<kECHO, a, kget, j>>),
      ping        |-> Req(<<kPING>>),
      echo        |-> Req(<<kecho, <<WideChar, "a">> >>),
      ping_mixed  |-> Req(<<<<"P", "i", "n", "g">>>>),
      bare_ping   |-> DataType_fmt(BulkString(kping)),
      echo_ping_x |-> Req(<<kECHO, a, kPING, x>>),
      echo_set    |-> Req(<<kECHO, a, kSET, k>>),
      simple      |-> DataType_fmt(SimpleString(kPING)),
      nested      |-> DataType_fmt(Array(<<Array(<<>>)>>)) ]

Names == DOMAIN Menu

kFOO == <<"F", "O", "O">>

\* A client's request whose last element is not a bulk string
ReqThen(toks, last) ==
    DataType_fmt(Array([i \in 1..Len(toks) |-> BulkString(toks[i])] \o <<last>>))

\* More buffers a transport read can return: commands after a SET or after an
\* unknown keyword, two requests in one buffer, and arrays that end the
\* connection after a SET
MenuMore ==
    [ set_get      |-> Req(<<kSET, k, a, kGET, k>>),
      foo_echo     |-> Req(<<kFOO, kECHO, a>>),
      ping_set     |-> Req(<<kPING>>) \o Req(<<kSET, k, b>>),
      set_ping_x   |-> Req(<<kSET, k, a, x, kPING, x>>),
      set_set      |-> Req(<<kSET, k, a, x, kSET, k>>),
      set_nested   |-> ReqThen(<<kSET, k, a, x>>, Array(<<>>)),
      get_k        |-> Req(<<kget, k>>) ]

NamesMore == DOMAIN MenuMore

\* Buffers with SETs whose px option lacks its milliseconds
MenuPx ==
    [ set_px       |-> Req(<<kSET, k, b, kpx>>),
      set_px_neg   |-> Req(<<kset, k, b, kpx, <<"-", "1">> >>),
      set_px_null  |-> ReqThen(<<kSET, k, b, kpx>>, NullBulk),
      get_px       |-> Req(<<kGET, k>>),
      foo_todo     |-> ReqThen(<<kFOO, kecho, a, kping, x>>, Array(<<>>)) ]

NamesPx == DOMAIN MenuPx

\* the bytes of the buffer named n
BufferOf(n) ==
    IF n \in Names THEN Menu[n] ELSE IF n \in NamesMore THEN MenuMore[n] ELSE MenuPx[n]

\* lines 370-377 applied to each buffer
Decoded == [n \in Names \cup NamesMore \cup NamesPx |-> DataType_try_from(BufferOf(n))]

\* ------------------------------------------------------------------ state

Conns == {"c1", "c2"}
NoConn == "none"

VARIABLES
    now,        \* the monotonic clock, in milliseconds
    db,         \* the HashMap: a set of [key, value] with distinct keys
    writer,     \* the connection holding the write lock, or NoConn
    readers,    \* the connections holding a read lock
    pc,         \* where each connection thread stands in handle_incoming
    iter,       \* elt_iter: the array elements not yet taken
    cmds,       \* commands: the commands built from the current buffer
    out,        \* the replies written to the stream for the current buffer
    pend,       \* the MapEntry about to be inserted, or the key about to be read
    reads,      \* how many transport reads have returned, over all connections
    req,        \* history: the name of the buffer being processed
    obs,        \* history: per command, what the store's history was when it ran
    hist,       \* history: per key, the SET that inserted last
    lastAcq,    \* history: per key, the SET that took the write lock last
    menu,       \* the names of the buffers the transport may deliver
    cbuf,       \* codec runs: the input buffer
    cres,       \* codec runs: the outcome of chainparse on cbuf
    shape       \* codec runs, history: how cbuf was put together

vars == <<now, db, writer, readers, pc, iter, cmds, out, pend, reads, req, obs,
          hist, lastAcq, menu, cbuf, cres, shape>>

srv == <<now, db, writer, readers, pc, iter, cmds, out, pend, reads, req, obs,
         hist, lastAcq, menu>>

NoShape == [kind |-> "none", v |-> NullBulk, count |-> 0, elems |-> <<>>, junk |-> <<>>]
NoPend == [key |-> <<>>, value |-> [data |-> <<>>, timer |-> NoTimer], at |-> 0, n |-> 0]
NoSet == [key |-> <<>>, by |-> NoConn, req |-> "none", n |-> 0, parsed |-> 0, at |-> 0,
          seq |-> 0]
NoObs == [key |-> <<>>, at |-> 0, known |-> FALSE, last |-> NoSet, racing |-> FALSE]

\* the history entry of key kk, NoSet when no SET to kk has been inserted
HistOf(h, kk) == IF \E e \in h : e.key = kk THEN CHOOSE e \in h : e.key = kk ELSE NoSet
HistPut(h, e) == {o \in h : o.key # e.key} \cup {e}
\* the number of SETs inserted so far
Inserted == IF hist = {} THEN 0 ELSE CHOOSE n \in {e.seq : e \in hist} : \A e \in hist : e.seq <= n
\* the history entry of the SET connection c is performing
SetRecord(c) ==
    [key |-> pend[c].key, by |-> c, req |-> req[c], n |-> pend[c].n,
     parsed |-> pend[c].at, at |-> now, seq |-> Inserted + 1]

Init ==
    /\ now = 0
    /\ db = {}
    /\ writer = NoConn
    /\ readers = {}
    /\ pc = [c \in Conns |-> "read"]
    /\ iter = [c \in Conns |-> <<>>]
    /\ cmds = [c \in Conns |-> <<>>]
    /\ out = [c \in Conns |-> <<>>]
    /\ pend = [c \in Conns |-> NoPend]
    /\ reads = 0
    /\ req = [c \in Conns |-> "none"]
    /\ obs = [c \in Conns |-> <<>>]
    /\ hist = {}
    /\ lastAcq = {}
    /\ menu = Names
    /\ cbuf = <<>>
    /\ cres = chainparse(<<>>)
    /\ shape = NoShape

\* the history entry of the SET for which connection c takes the write lock
AcqRecord(c) ==
    [key |-> pend[c].key, by |-> c, req |-> req[c], n |-> pend[c].n, seq |-> Inserted + 1]

\* ------------------------------------------------------- handle_incoming

\* where the thread stands once it has the elements it and the commands cs:
\* still in the while loop of line 391, in the for loop of line 445, or back
\* in stream.read
Resume(it, cs) ==
    IF it # <<>> THEN "walk" ELSE IF cs = <<>> THEN "read" ELSE "write"

\* lines 381-444 up to the first array element: what a decoded buffer starts
Dispatch(d) ==
    IF d.st = "err" THEN [pc |-> "error", iter |-> <<>>, cmds |-> <<>>]
    ELSE IF d.st = "panic" THEN [pc |-> "panicked", iter |-> <<>>, cmds |-> <<>>]
    ELSE IF d.v.t = "Array"
        THEN [pc |-> Resume(d.v.elts, <<>>), iter |-> d.v.elts, cmds |-> <<>>]
    ELSE IF d.v.t = "NullBulk" THEN [pc |-> "read", iter |-> <<>>, cmds |-> <<>>]
    ELSE LET r == Command_from_str(d.v.s)
         IN  IF r.st = "panic" THEN [pc |-> "panicked", iter |-> <<>>, cmds |-> <<>>]
             ELSE IF r.st = "err" THEN [pc |-> "read", iter |-> <<>>, cmds |-> <<>>]
             ELSE [pc |-> "write", iter |-> <<>>, cmds |-> <<r.cmd>>]

\* stream.read returns a buffer; it is decoded and dispatched (lines 364-390)
Read(c) ==
    /\ pc[c] = "read"
    /\ reads < MaxReads
    /\ \E n \in menu :
        LET d == Dispatch(Decoded[n])
        IN  /\ req' = [req EXCEPT ![c] = n]
            /\ pc' = [pc EXCEPT ![c] = d.pc]
            /\ iter' = [iter EXCEPT ![c] = d.iter]
            /\ cmds' = [cmds EXCEPT ![c] = d.cmds]
            /\ obs' = [obs EXCEPT ![c] = [i \in 1..Len(d.cmds) |-> NoObs]]
    /\ reads' = reads + 1
    /\ out' = [out EXCEPT ![c] = <<>>]
    /\ pend' = [pend EXCEPT ![c] = NoPend]
    /\ UNCHANGED <<now, db, writer, readers, hist, lastAcq, menu,
                   cbuf, cres, shape>>

\* stream.read returns 0: break, Ok(()) (lines 366-368, 449); there is no
\* current buffer any more
Close(c) ==
    /\ pc[c] = "read"
    /\ reads < MaxReads
    /\ pc' = [pc EXCEPT ![c] = "closed"]
    /\ reads' = reads + 1
    /\ req' = [req EXCEPT ![c] = "none"]
    /\ cmds' = [cmds EXCEPT ![c] = <<>>]
    /\ obs' = [obs EXCEPT ![c] = <<>>]
    /\ out' = [out EXCEPT ![c] = <<>>]
    /\ pend' = [pend EXCEPT ![c] = NoPend]
    /\ UNCHANGED <<now, db, writer, readers, iter, hist, lastAcq, menu, cbuf, cres, shape>>

\* the element at the cursor is string-bearing with text in texts
AtKeyword(c, texts) ==
    /\ pc[c] = "walk"
    /\ try_take(Head(iter[c])).some
    /\ try_take(Head(iter[c])).s \in texts

\* a walk step that leaves the elements it and pushes (or not) a command
Advance(c, it, push, cmd, o) ==
    LET cs == IF push THEN Append(cmds[c], cmd) ELSE cmds[c]
    IN  /\ iter' = [iter EXCEPT ![c] = it]
        /\ cmds' = [cmds EXCEPT ![c] = cs]
        /\ obs' = [obs EXCEPT ![c] = IF push THEN Append(@, o) ELSE @]
        /\ pc' = [pc EXCEPT ![c] = Resume(it, cs)]

\* WalkEcho that writes the reply at once
WalkEcho_eager(c) ==
    /\ AtKeyword(c, {kECHO, kecho})
    /\ LET payload == NextTake(Tail(iter[c]))
       IN  /\ Advance(c, Rest(Tail(iter[c])), payload.some, Echo(payload.s), NoObs)
           /\ out' = [out EXCEPT ![c] =
                        IF payload.some THEN Append(@, Command_fmt(Echo(payload.s)).s) ELSE @]
    /\ UNCHANGED <<now, db, writer, readers, pend, reads, req, hist, lastAcq, menu,
                   cbuf, cres, shape>>

\* lines 394-399
WalkEcho(c) ==
    /\ AtKeyword(c, {kECHO, kecho})
    /\ LET payload == NextTake(Tail(iter[c]))
       IN  Advance(c, Rest(Tail(iter[c])), payload.some, Echo(payload.s), NoObs)
    /\ UNCHANGED <<now, db, writer, readers, out, pend, reads, req, hist, lastAcq,
                   menu,
                   cbuf, cres, shape>>

\* lines 400-406
WalkPing(c) ==
    /\ AtKeyword(c, {kPING, kping})
    /\ LET payload == NextTake(Tail(iter[c]))
       IN  Advance(c, Rest(Tail(iter[c])), TRUE, Ping(payload.some, payload.s), NoObs)
    /\ UNCHANGED <<now, db, writer, readers, out, pend, reads, req, hist, lastAcq,
                   menu,
                   cbuf, cres, shape>>

\* how many Set commands cs holds
SetCount(cs) == Cardinality({i \in 1..Len(cs) : cs[i].kind = "Set"})

\* line 408: the MapEntry is built (its timer started) or the error returned
WalkSet(c) ==
    /\ AtKeyword(c, {kSET, kset})
    /\ LET e == MapEntry_try_from(Tail(iter[c]), now)
       IN  IF e.ok
           THEN /\ pend' = [pend EXCEPT ![c] = [key |-> e.key, value |-> e.value,
                                                at |-> now, n |-> SetCount(cmds[c]) + 1]]
                /\ iter' = [iter EXCEPT ![c] = e.rest]
                /\ pc' = [pc EXCEPT ![c] = "wlock"]
           ELSE /\ pc' = [pc EXCEPT ![c] = "error"]
                /\ UNCHANGED <<pend, iter>>
    /\ UNCHANGED <<now, db, writer, readers, cmds, out, reads, req, obs, hist, lastAcq,
                   menu,
                   cbuf, cres, shape>>

\* AcquireWrite that does not wait for the lock to be free
AcquireWrite_shared(c) ==
    /\ pc[c] = "wlock"
    /\ writer' = c
    /\ pc' = [pc EXCEPT ![c] = "insert"]
    /\ lastAcq' = HistPut(lastAcq, AcqRecord(c))
    /\ UNCHANGED <<now, db, readers, iter, cmds, out, pend, reads, req, obs, hist, menu,
                   cbuf, cres, shape>>

\* line 410: db_arc.write() returns once no other thread holds the lock
AcquireWrite(c) ==
    /\ pc[c] = "wlock"
    /\ writer = NoConn
    /\ readers = {}
    /\ writer' = c
    /\ pc' = [pc EXCEPT ![c] = "insert"]
    /\ lastAcq' = HistPut(lastAcq, AcqRecord(c))
    /\ UNCHANGED <<now, db, readers, iter, cmds, out, pend, reads, req, obs, hist,
                   menu,
                   cbuf, cres, shape>>

\* Insert that keeps the write guard after the insert
Insert_hold(c) ==
    /\ pc[c] = "insert"
    /\ db' = MapInsert(db, pend[c].key, pend[c].value)
    /\ hist' = HistPut(hist, SetRecord(c))
    /\ Advance(c, iter[c], TRUE, Set,
               [key |-> pend[c].key, at |-> now, known |-> TRUE,
                last |-> HistOf(hist, pend[c].key),
                racing |-> \E d \in Conns \ {c} : pc[d] = "wlock"])
    /\ pend' = [pend EXCEPT ![c] = NoPend]
    /\ UNCHANGED <<now, writer, readers, out, reads, req, lastAcq, menu,
                   cbuf, cres, shape>>

\* lines 411-415: the insert, the guard dropped, Some(Set)
Insert(c) ==
    /\ pc[c] = "insert"
    /\ db' = MapInsert(db, pend[c].key, pend[c].value)
    /\ writer' = NoConn
    /\ hist' = HistPut(hist, SetRecord(c))
    /\ Advance(c, iter[c], TRUE, Set,
               [key |-> pend[c].key, at |-> now, known |-> TRUE,
                last |-> HistOf(hist, pend[c].key),
                racing |-> \E d \in Conns \ {c} : pc[d] = "wlock"])
    /\ pend' = [pend EXCEPT ![c] = NoPend]
    /\ UNCHANGED <<now, readers, out, reads, req, lastAcq, menu,
                   cbuf, cres, shape>>

\* lines 417-419: the key is taken; with a key the thread goes for the read
\* lock, without one the command is dropped
WalkGet(c) ==
    /\ AtKeyword(c, {kGET, kget})
    /\ LET key == NextTake(Tail(iter[c]))
       IN  IF key.some
           THEN /\ pend' = [pend EXCEPT ![c] = [NoPend EXCEPT !.key = key.s]]
                /\ iter' = [iter EXCEPT ![c] = Rest(Tail(iter[c]))]
                /\ pc' = [pc EXCEPT ![c] = "rlock"]
                /\ UNCHANGED <<cmds, obs>>
           ELSE /\ Advance(c, Rest(Tail(iter[c])), FALSE, Set, NoObs)
                /\ UNCHANGED pend
    /\ UNCHANGED <<now, db, writer, readers, out, reads, req, hist, lastAcq, menu,
                   cbuf, cres, shape>>

\* line 419: db_arc.read() returns once no thread holds the write lock
AcquireRead(c) ==
    /\ pc[c] = "rlock"
    /\ writer = NoConn
    /\ readers' = readers \cup {c}
    /\ pc' = [pc EXCEPT ![c] = "lookup"]
    /\ UNCHANGED <<now, db, writer, iter, cmds, out, pend, reads, req, obs, hist,
                   lastAcq, menu,
                   cbuf, cres, shape>>

\* Lookup that removes the entry it finds expired
Lookup_evict(c) ==
    /\ pc[c] = "lookup"
    /\ LET r == MapLookup(db, pend[c].key, now)
       IN  Advance(c, iter[c], TRUE, Get(r.some, r.s),
                   [key |-> pend[c].key, at |-> now,
                    known |-> \E e \in hist : e.key = pend[c].key,
                    last |-> HistOf(hist, pend[c].key), racing |-> FALSE])
    /\ db' = {e \in db : ~(e.key = pend[c].key /\ MapValue_is_expired(e.value, now))}
    /\ readers' = readers \ {c}
    /\ pend' = [pend EXCEPT ![c] = NoPend]
    /\ UNCHANGED <<now, writer, out, reads, req, hist, lastAcq, menu,
                   cbuf, cres, shape>>

\* lines 420-432: the lookup and the expiry check, the guard dropped
Lookup(c) ==
    /\ pc[c] = "lookup"
    /\ LET r == MapLookup(db, pend[c].key, now)
       IN  Advance(c, iter[c], TRUE, Get(r.some, r.s),
                   [key |-> pend[c].key, at |-> now,
                    known |-> \E e \in hist : e.key = pend[c].key,
                    last |-> HistOf(hist, pend[c].key), racing |-> FALSE])
    /\ readers' = readers \ {c}
    /\ pend' = [pend EXCEPT ![c] = NoPend]
    /\ UNCHANGED <<now, db, writer, out, reads, req, hist, lastAcq, menu,
                   cbuf, cres, shape>>

\* WalkOther that drops the element after the unknown text with it
WalkOther_two(c) ==
    /\ pc[c] = "walk"
    /\ try_take(Head(iter[c])).some
    /\ try_take(Head(iter[c])).s \notin {kECHO, kecho, kPING, kping, kSET, kset, kGET, kget}
    /\ Advance(c, Rest(Tail(iter[c])), FALSE, Set, NoObs)
    /\ UNCHANGED <<now, db, writer, readers, out, pend, reads, req, hist, lastAcq,
                   menu,
                   cbuf, cres, shape>>

\* line 434: any other text is dropped
WalkOther(c) ==
    /\ pc[c] = "walk"
    /\ try_take(Head(iter[c])).some
    /\ try_take(Head(iter[c])).s \notin {kECHO, kecho, kPING, kping, kSET, kset, kGET, kget}
    /\ Advance(c, Tail(iter[c]), FALSE, Set, NoObs)
    /\ UNCHANGED <<now, db, writer, readers, out, pend, reads, req, hist, lastAcq,
                   menu,
                   cbuf, cres, shape>>

\* line 436: todo!() on an element that bears no string
WalkTodo(c) ==
    /\ pc[c] = "walk"
    /\ ~try_take(Head(iter[c])).some
    /\ pc' = [pc EXCEPT ![c] = "panicked"]
    /\ UNCHANGED <<now, db, writer, readers, iter, cmds, out, pend, reads, req, obs,
                   hist, lastAcq, menu,
                   cbuf, cres, shape>>

\* lines 445-447: the next command is formatted and written
WriteReply(c) ==
    /\ pc[c] = "write"
    /\ LET i == Len(out[c]) + 1
           f == Command_fmt(cmds[c][i])
       IN  IF f.panic
           THEN /\ pc' = [pc EXCEPT ![c] = "panicked"]
                /\ UNCHANGED out
           ELSE /\ out' = [out EXCEPT ![c] = Append(@, f.s)]
                /\ pc' = [pc EXCEPT ![c] = IF i = Len(cmds[c]) THEN "read" ELSE "write"]
    /\ UNCHANGED <<now, db, writer, readers, iter, cmds, pend, reads, req, obs, hist,
                   lastAcq, menu,
                   cbuf, cres, shape>>

\* a millisecond passes
Tick ==
    /\ now < MaxTime
    /\ now' = now + 1
    /\ UNCHANGED <<db, writer, readers, pc, iter, cmds, out, pend, reads, req, obs,
                   hist, lastAcq, menu,
                   cbuf, cres, shape>>

Next ==
    \/ Tick
    \/ \E c \in Conns :
        \/ Read(c)
        \/ Close(c)
        \/ WalkEcho(c)
        \/ WalkPing(c)
        \/ WalkSet(c)
        \/ AcquireWrite(c)
        \/ Insert(c)
        \/ WalkGet(c)
        \/ AcquireRead(c)
        \/ Lookup(c)
        \/ WalkOther(c)
        \/ WalkTodo(c)
        \/ WriteReply(c)

Spec == Init /\ [][Next]_vars

\* the server started as in Init, its clients sending the buffers of MenuMore
InitMore ==
    /\ now = 0
    /\ db = {}
    /\ writer = NoConn
    /\ readers = {}
    /\ pc = [c \in Conns |-> "read"]
    /\ iter = [c \in Conns |-> <<>>]
    /\ cmds = [c \in Conns |-> <<>>]
    /\ out = [c \in Conns |-> <<>>]
    /\ pend = [c \in Conns |-> NoPend]
    /\ reads = 0
    /\ req = [c \in Conns |-> "none"]
    /\ obs = [c \in Conns |-> <<>>]
    /\ hist = {}
    /\ lastAcq = {}
    /\ menu = NamesMore
    /\ cbuf = <<>>
    /\ cres = chainparse(<<>>)
    /\ shape = NoShape

SpecMore == InitMore /\ [][Next]_vars

\* the server started as in Init, its clients sending the buffers of MenuPx
InitPx ==
    /\ now = 0
    /\ db = {}
    /\ writer = NoConn
    /\ readers = {}
    /\ pc = [c \in Conns |-> "read"]
    /\ iter = [c \in Conns |-> <<>>]
    /\ cmds = [c \in Conns |-> <<>>]
    /\ out = [c \in Conns |-> <<>>]
    /\ pend = [c \in Conns |-> NoPend]
    /\ reads = 0
    /\ req = [c \in Conns |-> "none"]
    /\ obs = [c \in Conns |-> <<>>]
    /\ hist = {}
    /\ lastAcq = {}
    /\ menu = NamesPx
    /\ cbuf = <<>>
    /\ cres = chainparse(<<>>)
    /\ shape = NoShape

SpecPx == InitPx /\ [][Next]_vars

\* ------------------------------------------------------------ codec runs

\* sequences over S of length at most n
SeqsUpTo(S, n) == UNION {[1..m -> S] : m \in 0..n}

\* The protocol values that are encoded and decoded back: the leaves, the
\* arrays of at most MaxElems leaves, and the arrays of one or two of those
Leaves == {SimpleString(a), BulkString(<<WideChar, CR, LF>>), NullBulk}
Level1 == Leaves \cup {Array(es) : es \in SeqsUpTo(Leaves, MaxElems)}
Values ==
    Level1 \cup {Array(<<v>>) : v \in Level1}
           \cup {Array(<<v, w>>) : v \in Level1, w \in Level1}

\* The elements and the stray characters array frames are put together from
Elems == {BulkString(a), BulkString(<<>>), NullBulk, Array(<<>>)}
JunkChars == {CR, LF, "x", "$"}

\* the encoding of a value is decoded
Whole ==
    /\ shape.kind = "none"
    /\ \E v \in Values :
        /\ cbuf' = DataType_fmt(v)
        /\ shape' = [NoShape EXCEPT !.kind = "value", !.v = v]
    /\ cres' = chainparse(cbuf')
    /\ UNCHANGED srv

\* an array header declaring n elements is decoded
Header ==
    /\ shape.kind = "none"
    /\ \E n \in 0..MaxCount :
        /\ cbuf' = <<"*">> \o ToDec(n) \o CRLF
        /\ shape' = [NoShape EXCEPT !.kind = "array", !.count = n]
    /\ cres' = chainparse(cbuf')
    /\ UNCHANGED srv

\* one more element is put after the header, and the frame decoded
Elem ==
    /\ shape.kind = "array"
    /\ shape.junk = <<>>
    /\ Len(shape.elems) < shape.count
    /\ \E e \in Elems :
        /\ cbuf' = cbuf \o DataType_fmt(e)
        /\ shape' = [shape EXCEPT !.elems = Append(@, e)]
    /\ cres' = chainparse(cbuf')
    /\ UNCHANGED srv

\* one more character is put after the last element, and the frame decoded
Junk ==
    /\ shape.kind = "array"
    /\ Len(shape.junk) < MaxJunk
    /\ \E ch \in JunkChars :
        /\ cbuf' = Append(cbuf, ch)
        /\ shape' = [shape EXCEPT !.junk = Append(@, ch)]
    /\ cres' = chainparse(cbuf')
    /\ UNCHANGED srv

NextCodec == Whole \/ Header \/ Elem \/ Junk

SpecCodec == Init /\ [][NextCodec]_vars

\* ------------------------------------------------------------- wire runs

\* Wire forms of array elements and the values they stand for: the forms
\* DataType_fmt writes, and bulk strings whose length header is written with
\* a leading zero or a plus sign
Forms ==
    { [text |-> DataType_fmt(BulkString(a)), v |-> BulkString(a)],
      [text |-> DataType_fmt(BulkString(<<>>)), v |-> BulkString(<<>>)],
      [text |-> DataType_fmt(NullBulk), v |-> NullBulk],
      [text |-> <<"$", "0", "1">> \o CRLF \o a \o CRLF, v |-> BulkString(a)],
      [text |-> <<"$", "+", "1">> \o CRLF \o b \o CRLF, v |-> BulkString(b)] }

\* The characters buffers are put together from
RawChars == {CR, LF, "*", "$", "+", "0", "a", WideChar}

\* an array header declaring n elements is decoded
FrameHeader ==
    /\ shape.kind = "none"
    /\ \E n \in 1..MaxForms :
        /\ cbuf' = <<"*">> \o ToDec(n) \o CRLF
        /\ shape' = [NoShape EXCEPT !.kind = "frame", !.count = n]
    /\ cres' = chainparse(cbuf')
    /\ UNCHANGED srv

\* the wire form of one more element is put after the header, and the frame
\* decoded
FrameElem ==
    /\ shape.kind = "frame"
    /\ Len(shape.elems) < shape.count
    /\ \E f \in Forms :
        /\ cbuf' = cbuf \o f.text
        /\ shape' = [shape EXCEPT !.elems = Append(@, f)]
    /\ cres' = chainparse(cbuf')
    /\ UNCHANGED srv

\* one more character is put at the end of a buffer, and the buffer decoded
Raw ==
    /\ shape.kind \in {"none", "raw"}
    /\ Len(cbuf) < MaxRaw
    /\ \E ch \in RawChars :
        /\ cbuf' = Append(cbuf, ch)
        /\ shape' = [NoShape EXCEPT !.kind = "raw"]
    /\ cres' = chainparse(cbuf')
    /\ UNCHANGED srv

NextWire == FrameHeader \/ FrameElem \/ Raw

SpecWire == Init /\ [][NextWire]_vars

\* ----------------------------------------------------- what the clients meant

\* The SETs the buffers of Menu ask for: the key, the value and the px option
\* (-1 for none) of the n-th SET of the buffer, as the client wrote them.
SetIntent ==
    { [req |-> "set_a", n |-> 1, key |-> k, val |-> a, px |-> 0 - 1],
      [req |-> "set_px0", n |-> 1, key |-> k, val |-> a, px |-> 0],
      [req |-> "set_px1", n |-> 1, key |-> k, val |-> b, px |-> 1] }

IntentOf(h) == CHOOSE i \in SetIntent : i.req = h.req /\ i.n = h.n

\* Replies as they appear on the wire
WirePong == <<"+", "P", "O", "N", "G", CR, LF>>
WireOk == <<"+", "O", "K", CR, LF>>
WireNull == <<"$", "-", "1", CR, LF>>
WireBulk(p) == <<"$">> \o ToDec(ByteLen(p)) \o CRLF \o p \o CRLF

\* the GET commands of the current buffers, as <<connection, index>>
Gets ==
    UNION {{<<c, i>> : i \in {n \in 1..Len(cmds[c]) : cmds[c][n].kind = "Get"}} : c \in Conns}

\* the i-th reply of connection c has been written
Written(c, i) == i <= Len(out[c])

\* the buffer read by connection c has been processed to its end
Done(c) == pc[c] = "read" /\ req[c] # "none"

\* ------------------------------------------------------------- properties

\* C1: a GET k that runs when the last SET inserted for k was a SET k v
\* without px yields Get(Some(v)), and the reply written for it is the bulk
\* string v, whichever connection performed the SET.
C1_GetAfterSet ==
    \A ci \in Gets :
        LET c == ci[1]
            i == ci[2]
            o == obs[c][i]
        IN  (o.known /\ IntentOf(o.last).px < 0)
            => /\ IntentOf(o.last).key = o.key
               /\ cmds[c][i] = Get(TRUE, IntentOf(o.last).val)
               /\ Written(c, i) => out[c][i] = WireBulk(IntentOf(o.last).val)

\* a GET on one connection has replied with the value another connection SET
C1_Witness ==
    \E ci \in Gets :
        LET c == ci[1]
            i == ci[2]
            o == obs[c][i]
        IN  /\ o.known
            /\ IntentOf(o.last).px < 0
            /\ o.last.by # c
            /\ Written(c, i)
            /\ out[c][i] = <<"$", "1", CR, LF, "a", CR, LF>>

\* the expiry rule for the GET ci, with the elapsed time counted from start
ExpiryRule(ci, start) ==
    LET c == ci[1]
        i == ci[2]
        o == obs[c][i]
        N == IntentOf(o.last).px
    IN  (o.known /\ N >= 0)
        => /\ (o.at - start >= N)
                => /\ cmds[c][i] = Get(FALSE, <<>>)
                   /\ Written(c, i) => out[c][i] = WireNull
           /\ (o.at - start < N)
                => /\ cmds[c][i] = Get(TRUE, IntentOf(o.last).val)
                   /\ Written(c, i) => out[c][i] = WireBulk(IntentOf(o.last).val)

\* once a GET has found the SET expired, no later GET of the same SET finds a value
ExpiryStays ==
    \A g \in Gets : \A h \in Gets :
        LET og == obs[g[1]][g[2]]
            oh == obs[h[1]][h[2]]
        IN  (/\ og.known /\ oh.known
             /\ og.last.seq = oh.last.seq
             /\ IntentOf(og.last).px >= 0
             /\ ~cmds[g[1]][g[2]].some
             /\ oh.at >= og.at)
            => ~cmds[h[1]][h[2]].some

\* C2: after SET k v px N, a GET k replies null when the time elapsed since
\* the insertion is at least N and v while it is below N.
C2_ExpirySinceInsert ==
    \A ci \in Gets : ExpiryRule(ci, obs[ci[1]][ci[2]].last.at)

\* What the code does instead: after SET k v px N, a GET k replies null when
\* the time elapsed since the SET started its timer (when it took its
\* arguments, before it asked for the write lock) is at least N and v while it
\* is below N; with N = 0 every GET k replies null, and once a GET k has
\* replied null every later GET k does until the next SET to k.
ExpirySinceTimerStart ==
    /\ \A ci \in Gets : ExpiryRule(ci, obs[ci[1]][ci[2]].last.parsed)
    /\ ExpiryStays

\* a GET has replied null to a SET px 1 inserted less than 1 ms before it,
\* whose timer was started 1 ms before it
NullBeforeTimeout ==
    \E ci \in Gets :
        LET c == ci[1]
            i == ci[2]
            o == obs[c][i]
        IN  /\ o.known
            /\ IntentOf(o.last).px = 1
            /\ o.at - o.last.parsed >= 1
            /\ o.at - o.last.at < 1
            /\ Written(c, i)
            /\ out[c][i] = WireNull

\* C3: whenever no thread holds the write lock, each key holds exactly the
\* value and the timer option of the SET that took the write lock last for it.
C3_LastWriterWins ==
    writer = NoConn
    => \A e \in lastAcq :
           /\ Cardinality({d \in db : d.key = e.key}) = 1
           /\ \A d \in db :
                d.key = e.key
                => /\ d.value.data = IntentOf(e).val
                   /\ d.value.timer.some = (IntentOf(e).px >= 0)
                   /\ d.value.timer.some => d.value.timer.timeout = ToDec(IntentOf(e).px)

\* two connections have each finished a SET to k, one of them having waited
\* for the write lock while the other held it, and the store holds the value
\* of the later one
C3_Witness ==
    /\ writer = NoConn
    /\ \E c \in Conns : \E d \in Conns \ {c} :
        /\ Done(c) /\ Done(d)
        /\ cmds[c] = <<Set>> /\ cmds[d] = <<Set>>
        /\ obs[c][1].racing
        /\ IntentOf(HistOf(hist, k)).val # IntentOf(obs[d][1].last).val
        /\ HistOf(hist, k).by = d
        /\ HistOf(hist, k).seq = 2

\* C6 as written: a buffer whose keyword is PING in any mix of cases is
\* answered like PING: once it is processed, +PONG has been written.
C6_AnyCasePing ==
    \A c \in Conns :
        (Done(c) /\ req[c] \in {"ping", "ping_mixed", "bare_ping"})
        => out[c] = <<WirePong>>

\* C7 as written: when a connection has ended by an error or a fatal path,
\* no reply to a command of the buffer that ended it has been written.
C7_NoPartialReply ==
    \A c \in Conns : pc[c] \in {"error", "panicked"} => out[c] = <<>>

\* C8: a GET k that runs when no SET to k has ever been inserted yields
\* Get(None), and the reply written for it is $-1\r\n.
C8_GetNeverSet ==
    \A ci \in Gets :
        LET c == ci[1]
            i == ci[2]
        IN  ~obs[c][i].known
            => /\ cmds[c][i] = Get(FALSE, <<>>)
               /\ Written(c, i) => out[c][i] = WireNull

\* GET j has replied $-1\r\n while the store held another key
C8_Witness ==
    \E ci \in Gets :
        LET c == ci[1]
            i == ci[2]
        IN  /\ ~obs[c][i].known
            /\ obs[c][i].key = j
            /\ db # {}
            /\ Written(c, i)
            /\ out[c][i] = WireNull

\* the reply each command is to get
ExpectedReply(cmd) ==
    CASE cmd.kind = "Ping" -> WirePong
      [] cmd.kind = "Echo" -> WireBulk(cmd.s)
      [] cmd.kind = "Set" -> WireOk
      [] OTHER -> <<>>

\* C9: the replies written are, in order, those of the commands built from
\* the buffer, one each once the buffer is processed: +PONG\r\n for PING with
\* no argument, $<byte length of p>\r\np\r\n for ECHO p, +OK\r\n for SET.
C9_OneReplyEach ==
    \A c \in Conns :
        /\ Len(out[c]) <= Len(cmds[c])
        /\ \A i \in 1..Len(out[c]) :
            cmds[c][i].kind \in {"Ping", "Echo", "Set"} => out[c][i] = ExpectedReply(cmds[c][i])
        /\ Done(c) => Len(out[c]) = Len(cmds[c])
        /\ (Done(c) /\ req[c] \in {"ping", "bare_ping"}) => out[c] = <<WirePong>>
        /\ (Done(c) /\ req[c] = "echo")
                => out[c] = <<<<"$", "3", CR, LF, WideChar, "a", CR, LF>>>>
        /\ (Done(c) /\ req[c] \in {"set_a", "set_px0", "set_px1"}) => out[c] = <<WireOk>>
        /\ (Done(c) /\ req[c] = "echo_get_j")
                => out[c] = <<<<"$", "1", CR, LF, "a", CR, LF>>, WireNull>>

\* a buffer with two commands has been answered by two replies, and an ECHO of
\* a payload whose byte length exceeds its character count has been answered
C9_Witness ==
    \E c \in Conns : \E d \in Conns :
        /\ Done(c) /\ req[c] = "echo_get_j" /\ Len(out[c]) = 2
        /\ Done(d) /\ req[d] = "echo" /\ Len(out[d]) = 1

\* the states in which a thread is building the commands of an array
Walking == {"walk", "wlock", "insert", "rlock", "lookup"}

\* C10 as written: when a command of an array accesses the store, the reply
\* of every earlier command of the array has been written.
C10_ReplyBeforeNextAccess ==
    \A c \in Conns : pc[c] \in {"insert", "lookup"} => Len(out[c]) = Len(cmds[c])

\* C10 as amended: the commands of an array access the store in order while
\* the array is walked, and no reply is written before the last of them has
\* done so; the replies are then written in the order of the commands.
C10_RepliesAfterWalk ==
    \A c \in Conns :
        /\ pc[c] \in Walking => out[c] = <<>>
        /\ \A i \in 1..Len(out[c]) :
            /\ i <= Len(cmds[c])
            /\ out[c][i] = Command_fmt(cmds[c][i]).s

\* a GET holds the read lock while the reply of the ECHO before it in the
\* array is still unwritten
C10_Witness ==
    \E c \in Conns :
        /\ pc[c] = "lookup"
        /\ Len(cmds[c]) = 1
        /\ cmds[c][1].kind = "Echo"
        /\ out[c] = <<>>

RECURSIVE HasSimple(_)
\* v is a simple string or holds one
HasSimple(v) ==
    \/ v.t = "SimpleString"
    \/ v.t = "Array" /\ \E i \in 1..Len(v.elts) : HasSimple(v.elts[i])

\* cbuf is the encoding of a value: of shape.v, or of the array of the
\* elements put after a header that declares as many
Encodes == shape.kind = "value" \/ (shape.kind = "array" /\ Len(shape.elems) = shape.count
                                    /\ shape.junk = <<>>)
Encoded == IF shape.kind = "value" THEN shape.v ELSE Array(shape.elems)

\* C4 as written: decoding the encoding of any protocol value yields the
\* value and leaves no bytes.
C4_RoundTripAll ==
    Encodes => cres = [res |-> Ok(Encoded), some |-> TRUE, rem |-> <<>>]

\* C4 as amended: decoding the encoding of a protocol value that holds no
\* simple string (a null bulk string, a bulk string, an array of such values,
\* nested arrays included) yields the value and leaves no bytes.
C4_RoundTripNoSimple ==
    (Encodes /\ ~HasSimple(Encoded))
    => cres = [res |-> Ok(Encoded), some |-> TRUE, rem |-> <<>>]

\* an array that holds a null bulk string and an array holding a bulk string
\* of multi-byte and CR LF characters has been decoded back
C4_Witness ==
    /\ shape.kind = "value"
    /\ shape.v = Array(<<NullBulk, Array(<<BulkString(<<WideChar, CR, LF>>)>>)>>)
    /\ cres.res = Ok(shape.v)
    /\ cres.rem = <<>>

\* C5 as written: decoding an array frame that declares more elements than
\* the buffer holds returns a decode error, whatever follows the last element.
C5_ShortArrayIsError ==
    (shape.kind = "array" /\ Len(shape.elems) < shape.count) => cres.res.st = "err"

\* the states in which a thread waits on its socket, formats and writes a
\* reply, or has ended
OffStore == {"read", "write", "closed", "error", "panicked"}

\* a thread holds the write lock only while it inserts and a read lock only
\* while it looks up; a thread waiting for a lock while every other thread
\* is off the store finds the lock free
LockScope ==
    \A c \in Conns :
        /\ writer = c => pc[c] = "insert"
        /\ c \in readers => pc[c] = "lookup"
        /\ (pc[c] = "wlock" /\ \A d \in Conns \ {c} : pc[d] \in OffStore)
                => (writer = NoConn /\ readers = {})
        /\ (pc[c] = "rlock" /\ \A d \in Conns \ {c} : pc[d] \in OffStore)
                => writer = NoConn

\* a thread that ends by an error or a fatal path holds no lock as it ends
EndsUnlocked ==
    \A c \in Conns :
        (pc'[c] \in {"error", "panicked"} /\ pc[c] \notin {"error", "panicked"})
        => (writer # c /\ c \notin readers /\ writer' # c /\ c \notin readers')

\* C11: a thread holds the store lock only for one insert (write lock) or one
\* lookup with its expiry check (read lock); a thread in a socket read or
\* write, formatting a reply, or ended by an error or a fatal path holds no
\* lock and did not end holding one, so it never keeps another connection's
\* SET or GET from getting the lock.
C11_LockScope == [](LockScope) /\ [][EndsUnlocked]_vars

\* a connection has ended on a fatal path after it inserted a SET and wrote
\* its reply, and another connection has then completed a GET of that key
C11_Witness ==
    \E c \in Conns : \E d \in Conns \ {c} :
        /\ pc[c] = "panicked" /\ req[c] = "set_ping_x" /\ out[c] = <<WireOk>>
        /\ Done(d) /\ req[d] = "get_k"
        /\ obs[d][1].last.by = c
        /\ out[d] = <<WireBulk(a)>>

\* the elements of the array connection c is processing
EltsOf(c) == Decoded[req[c]].v.elts

\* what is to remain of the elements elts, which start with SET, once the SET
\* has taken its arguments: the key and the value go, and the two elements
\* after them when the first of the two has the text px
AfterSet(elts) ==
    LET after == SubSeq(elts, 4, Len(elts))
    IN  IF NextTake(after) = [some |-> TRUE, s |-> kpx] THEN Rest(Rest(after)) ELSE after

\* C12 as written: a SET takes its key and its value, and the two elements
\* after them only when the first has the text px; an element after the value
\* that is not px is the next candidate keyword, so the array SET k a GET k
\* yields a Set and a Get and two replies.
C12_SetTakesOnlyItsArguments ==
    \A c \in Conns :
        /\ (/\ pc[c] = "wlock"
            /\ cmds[c] = <<>>
            /\ NextTake(EltsOf(c)).s \in {kSET, kset})
                => iter[c] = AfterSet(EltsOf(c))
        /\ (Done(c) /\ req[c] = "set_get")
                => /\ Len(cmds[c]) = 2
                   /\ cmds[c][1] = Set
                   /\ cmds[c][2].kind = "Get"
                   /\ Len(out[c]) = 2

\* the upper-case form of the letters the keywords are written with
UpperOf(ch) ==
    CASE ch = "p" -> "P" [] ch = "i" -> "I" [] ch = "n" -> "N" [] ch = "g" -> "G"
      [] ch = "e" -> "E" [] ch = "c" -> "C" [] ch = "h" -> "H" [] ch = "o" -> "O"
      [] ch = "s" -> "S" [] ch = "t" -> "T" [] OTHER -> ch

\* the text s is a keyword in no mix of cases
NoKeyword(s) == [i \in 1..Len(s) |-> UpperOf(s[i])] \notin {kPING, kECHO, kSET, kGET}

\* the element at the cursor of c is string-bearing and its text no keyword
AtNoKeyword(c) ==
    /\ pc[c] = "walk"
    /\ try_take(Head(iter[c])).some
    /\ NoKeyword(try_take(Head(iter[c])).s)

\* the step of c from an unknown text drops that element alone: no command,
\* no reply, no error, and the element after it is the next candidate
DropsOne ==
    \A c \in Conns :
        (AtNoKeyword(c) /\ <<pc[c], iter[c]>>' # <<pc[c], iter[c]>>)
        => /\ iter'[c] = Tail(iter[c])
           /\ cmds'[c] = cmds[c]
           /\ out'[c] = out[c]
           /\ db' = db
           /\ pc'[c] = Resume(Tail(iter[c]), cmds[c])

\* the array FOO ECHO a has executed the ECHO and replied to it
EchoAfterFoo ==
    \A c \in Conns :
        (Done(c) /\ req[c] = "foo_echo")
        => (cmds[c] = <<Echo(a)>> /\ out[c] = <<WireBulk(a)>>)

\* C13: a string-bearing element at a keyword position whose text is no
\* keyword is dropped with no reply and no error and the cursor advances by
\* one element; the element after it is examined as a candidate keyword, so
\* the ECHO of the array FOO ECHO a is executed and replied to.
C13_UnknownDropsOne == [](EchoAfterFoo) /\ [][DropsOne]_vars

\* the array FOO ECHO a has been processed and the reply to ECHO a written
C13_Witness ==
    \E c \in Conns :
        /\ Done(c)
        /\ req[c] = "foo_echo"
        /\ out[c] = <<<<"$", "1", CR, LF, "a", CR, LF>>>>

\* the SET commands of the current buffers, as <<connection, index>>
Sets ==
    UNION {{<<c, i>> : i \in {n \in 1..Len(cmds[c]) : cmds[c][n].kind = "Set"}} : c \in Conns}

\* the GET g ran when the last SET inserted for its key was the SET s, and
\* the SET s had overwritten an entry
GetsOverwriter(g, s) ==
    LET og == obs[g[1]][g[2]]
        os == obs[s[1]][s[2]]
    IN  /\ og.known
        /\ og.key = os.key
        /\ os.last.seq > 0
        /\ og.last.seq = os.last.seq + 1
        /\ og.last.by = s[1]
        /\ og.last.req = req[s[1]]
        /\ og.last.n = SetCount(SubSeq(cmds[s[1]], 1, s[2]))

\* C14: SET overwrites the value and the timer together. After SET k v1 px N
\* and then SET k v2 without px, a GET k replies v2 at every later time, also
\* when N milliseconds have passed since the first SET; after SET k v1 and
\* then SET k v2 px N, a GET k replies null once N milliseconds have passed
\* since the second SET.
C14_OverwriteValueAndTimer ==
    \A g \in Gets : \A s \in Sets :
        LET c == g[1]
            i == g[2]
            og == obs[c][i]
            first == IntentOf(obs[s[1]][s[2]].last)
            second == IntentOf(og.last)
        IN  GetsOverwriter(g, s)
            => /\ (first.px >= 0 /\ second.px < 0)
                    => /\ cmds[c][i] = Get(TRUE, second.val)
                       /\ Written(c, i) => out[c][i] = WireBulk(second.val)
               /\ (first.px < 0 /\ second.px >= 0 /\ og.at - og.last.at >= second.px)
                    => /\ cmds[c][i] = Get(FALSE, <<>>)
                       /\ Written(c, i) => out[c][i] = WireNull

\* SET k b px 1 was overwritten by SET k a, and a GET k that ran 1 ms or more
\* after the first SET has replied a
C14_Witness ==
    \E g \in Gets : \E s \in Sets :
        LET og == obs[g[1]][g[2]]
            os == obs[s[1]][s[2]]
        IN  /\ GetsOverwriter(g, s)
            /\ IntentOf(os.last).px = 1
            /\ IntentOf(og.last).px < 0
            /\ og.at - os.last.at >= 1
            /\ Written(g[1], g[2])
            /\ out[g[1]][g[2]] = <<"$", "1", CR, LF, "a", CR, LF>>

\* SET k a was overwritten by SET k b px 1, and a GET k that ran 1 ms or more
\* after the second SET has replied null
C14_SecondCase ==
    \E g \in Gets : \E s \in Sets :
        LET og == obs[g[1]][g[2]]
            os == obs[s[1]][s[2]]
        IN  /\ GetsOverwriter(g, s)
            /\ IntentOf(os.last).px < 0
            /\ IntentOf(og.last).px = 1
            /\ og.at - og.last.at >= 1
            /\ Written(g[1], g[2])
            /\ out[g[1]][g[2]] = WireNull

\* the keys present in the map m
KeysOf(m) == {e.key : e \in m}

\* connection c builds a command of kind kd in this step
Builds(c, kd) ==
    /\ Len(cmds'[c]) = Len(cmds[c]) + 1
    /\ cmds'[c][Len(cmds'[c])].kind = kd

\* a step changes the store only when it completes a SET; the steps that
\* build a Get, a Ping or an Echo leave it as it is, and no key goes away
StoreFrame ==
    /\ KeysOf(db) \subseteq KeysOf(db')
    /\ db' # db => \E c \in Conns : pc[c] = "insert" /\ Builds(c, "Set")
    /\ \A c \in Conns :
        (Builds(c, "Get") \/ Builds(c, "Ping") \/ Builds(c, "Echo")) => db' = db

\* C15: GET leaves the store unchanged, also when it finds the entry expired,
\* and PING and ECHO never touch the store: only SET changes it, so the set
\* of keys present never shrinks.
C15_OnlySetChangesStore == [][StoreFrame]_vars

\* a GET has replied null for an entry it found expired, and the entry is
\* still in the map
C15_Witness ==
    \E g \in Gets :
        LET c == g[1]
            i == g[2]
        IN  /\ obs[c][i].known
            /\ cmds[c][i] = Get(FALSE, <<>>)
            /\ Written(c, i)
            /\ \E e \in db : e.key = obs[c][i].key /\ e.value.timer.some

RECURSIVE TextsFrom(_, _)
\* the wire forms fs[i], fs[i+1], ... one after another
TextsFrom(fs, i) == IF i > Len(fs) THEN <<>> ELSE fs[i].text \o TextsFrom(fs, i + 1)

\* C16 as written: the decode of each array element consumes the bytes of
\* that element's wire form and no others: the input handed to the decode of
\* element i is the part of the buffer that starts right after element i-1,
\* also when a length header is not written the way DataType_fmt writes it,
\* and a frame holding all its elements decodes to their values.
C16_ElementsConsumeOwnBytes ==
    shape.kind = "frame"
    => LET ins == ArrayInputs(ToDec(shape.count), split_once(cbuf, CRLF).tl)
       IN  /\ \A i \in 1..Len(ins) :
                i <= Len(shape.elems) + 1 => ins[i] = TextsFrom(shape.elems, i)
           /\ Len(shape.elems) = shape.count
                => cres.res = Ok(Array([i \in 1..shape.count |-> shape.elems[i].v]))

\* C17 as written: decode returns a value or a decode error for every buffer
\* and never panics; a buffer without CR LF gives the missing-delimiter error,
\* and a buffer whose text before the first CR LF does not begin with * or $,
\* the empty text included, gives the unknown-type error.
C17_DecodeTotal ==
    shape.kind = "raw"
    => LET sp == split_once(cbuf, CRLF)
       IN  /\ cres.res.st \in {"ok", "err"}
           /\ ~sp.found => cres.res = Err("Missing delimiter")
           /\ (sp.found /\ (sp.hd = <<>> \/ Head(sp.hd) \notin {"*", "$"}))
                => cres.res = Err("Unknown")

\* C18: a buffer yields at most one top-level value: the bytes after the
\* first complete value are discarded. A buffer holding the request PING and
\* then the request SET k b yields the one command Ping and the one reply
\* +PONG; the SET is never inserted, no error ends the connection, and the
\* connection goes on to its next read.
C18_OneValuePerBuffer ==
    /\ \A e \in hist \cup lastAcq : e.req # "ping_set"
    /\ \A c \in Conns :
        req[c] = "ping_set"
        => /\ pc[c] \in {"walk", "write", "read"}
           /\ pc[c] = "walk" => iter[c] = <<BulkString(kPING)>>
           /\ pc[c] = "write" => (cmds[c] = <<Ping(FALSE, <<>>)>> /\ out[c] = <<>>)
           /\ pc[c] = "read" => (cmds[c] = <<Ping(FALSE, <<>>)>> /\ out[c] = <<WirePong>>)

\* the buffer holding PING and then SET k b has been answered +PONG, the
\* connection is back at its socket read and the store is empty
C18_Witness ==
    \E c \in Conns :
        /\ Done(c)
        /\ req[c] = "ping_set"
        /\ out[c] = <<WirePong>>
        /\ db = {}

\* the buffers of MenuMore whose array ends the connection at an element
\* after a SET k a: PING with a payload, SET without its value, and an
\* element at a keyword position that bears no string
Aborting == {"set_ping_x", "set_set", "set_nested"}

\* connection c has ended on one of the buffers of Aborting
Aborted(c) == pc[c] \in {"error", "panicked"} /\ req[c] \in Aborting

\* the SET of an aborted array has been inserted and the entry is in the map
KeptAfterAbort ==
    \A c \in Conns :
        Aborted(c) => (Len(cmds[c]) >= 1 /\ cmds[c][1] = Set /\ k \in KeysOf(db))

\* a GET k that ran when the last SET inserted was that of an array of
\* Aborting has found its value
SeenAfterAbort ==
    \A g \in Gets :
        LET og == obs[g[1]][g[2]]
        IN  (og.known /\ og.last.req \in Aborting)
            => /\ cmds[g[1]][g[2]] = Get(TRUE, a)
               /\ Written(g[1], g[2]) => out[g[1]][g[2]] = WireBulk(a)

\* C19 as written: when an array ends the connection at an element after a
\* SET (SET without key or value, an element that bears no string at a keyword
\* position, PING with a payload), the SET has been inserted and stays
\* visible to the GETs of the other connections, and no reply to it has been
\* written.
C19_InsertedNotReplied ==
    /\ KeptAfterAbort
    /\ SeenAfterAbort
    /\ \A c \in Conns : Aborted(c) => out[c] = <<>>

\* the buffers of MenuPx with a SET k b px whose milliseconds element is
\* absent, not parsable as an unsigned integer, or bears no string
PxLacking == {"set_px", "set_px_neg", "set_px_null"}

\* C20: a SET whose value is followed by px but whose milliseconds element is
\* absent, bears no string or is not parsable as an unsigned integer does not
\* fail: its reply is +OK, the key is stored without a timer, and every GET
\* of the key replies the value however much time has passed, until the key
\* is overwritten.
C20_PxWithoutMillis ==
    /\ \A c \in Conns :
        req[c] \in PxLacking
        => /\ pc[c] \notin {"error", "panicked"}
           /\ Done(c) => (cmds[c] = <<Set>> /\ out[c] = <<WireOk>>)
    /\ \A e \in db :
        HistOf(hist, e.key).req \in PxLacking
        => e.value = [data |-> b, timer |-> NoTimer]
    /\ \A g \in Gets :
        LET og == obs[g[1]][g[2]]
        IN  (og.known /\ og.last.req \in PxLacking)
            => /\ cmds[g[1]][g[2]] = Get(TRUE, b)
               /\ Written(g[1], g[2]) => out[g[1]][g[2]] = WireBulk(b)

\* a GET k has replied b a millisecond or more after a SET k b px whose
\* milliseconds element reads -1
C20_Witness ==
    \E g \in Gets :
        LET og == obs[g[1]][g[2]]
        IN  /\ og.known
            /\ og.last.req = "set_px_neg"
            /\ og.at - og.last.at >= 1
            /\ Written(g[1], g[2])
            /\ out[g[1]][g[2]] = <<"$", "1", CR, LF, "b", CR, LF>>

====
